---- MODULE Spec2Model ----
(***************************************************************************)
(* Bulk CSV import pipeline of the inventory server (csv routes):          *)
(* preview -> commit -> single-flight job queue driven by timer callbacks. *)
(* The HTTP handlers and the timer callbacks each run to completion on a   *)
(* single event loop, so each one is one atomic action.                    *)
(***************************************************************************)
EXTENDS Integers, Sequences, FiniteSets, TLC

VARIABLES
    previewCache,       \* Map previewId -> PreviewCacheEntry
    nextPreviewId,      \* randomUUID() for previews: next fresh id
    jobStore,           \* Map jobId -> CsvJob
    jobQueue,           \* CsvJob[] (job ids, head first)
    activeJob,          \* CsvJob | null (0 is null)
    timers,             \* pending setTimeout callbacks
    productStore,       \* product catalog (records in insertion order)
    initialStockStore,  \* Map stock key -> InitialStockPayload
    movementLog,        \* MovementPayload[]
    stockSeeded,        \* boolean
    clock,              \* Date.now(); Tick advances it, in ClockSpec only
    applyLog,           \* history: <<jobId, row index, threw>> per applyRow call
    reply,              \* the last HTTP response sent
    csv                 \* a CSV text and table on their way through parseCsv / stringifyCsv

vars == <<previewCache, nextPreviewId, jobStore, jobQueue, activeJob, timers,
          productStore, initialStockStore, movementLog, stockSeeded, clock,
          applyLog, reply, csv>>

stores == <<previewCache, jobStore, jobQueue, activeJob, timers,
            productStore, initialStockStore, movementLog, stockSeeded>>

(***************************************************************************)
(* Bounds of the model.                                                    *)
(***************************************************************************)
MaxPreviews == 3        \* previews accepted (tokens issued)
MaxRows == 2            \* data rows held by the preview cache and the job store together

(***************************************************************************)
(* Types and static catalogs.                                              *)
(***************************************************************************)
CSV_TYPES == {"products", "initial_stock", "movements"}

warehouseCatalog ==
    [w \in {"ICN1", "PUS1", "DJN1"} |->
        CASE w = "ICN1" -> <<"A-01", "A-02", "B-01", "B-02">>
          [] w = "PUS1" -> <<"P-01", "P-02", "P-03">>
          [] w = "DJN1" -> <<"D-01", "D-02">>]

warehouseKeys == <<"ICN1", "PUS1", "DJN1">>

partnerCatalog == {"SUP-0001", "SUP-0002", "CUS-0001", "CUS-0002"}

Range(s) == {s[i] : i \in DOMAIN s}

buildStockKey(sku, warehouse, location) == <<sku, warehouse, location>>

(***************************************************************************)
(* Cell parsing.  A numeric cell is one of "", "x" (garbage) or a numeral. *)
(***************************************************************************)
Undefined == [kind |-> "undefined", val |-> 0]
NaN == [kind |-> "nan", val |-> 0]
Num(n) == [kind |-> "num", val |-> n]

parseNumber(value) ==
    CASE value = "" -> Undefined
      [] value = "0" -> Num(0)
      [] value = "1" -> Num(1)
      [] value = "2" -> Num(2)
      [] value = "-1" -> Num(-1)
      [] OTHER -> NaN

NoPayload == [none |-> TRUE]

\* (value ?? '').trim() on the cells of the model; the cells of an uploaded
\* table were already trimmed by parseCsv.
normalizeKey(value) ==
    CASE value = " S1 " -> "S1"
      [] value = " " -> ""
      [] OTHER -> value

toUpperCase(s) ==
    CASE s = "icn1" -> "ICN1"
      [] s = "a-01" -> "A-01"
      [] s = "sup-0001" -> "SUP-0001"
      [] s = "in" -> "IN"
      [] s = "out" -> "OUT"
      [] OTHER -> s

Max(a, b) == IF a >= b THEN a ELSE b

\* Math.round on the integers of the model.
Round(n) == n

NumOr(p, d) == IF p.kind = "num" THEN p.val ELSE d

(***************************************************************************)
(* Schema registry.                                                        *)
(***************************************************************************)
RequiredColumns(type) ==
    CASE type = "products" -> <<"sku", "name", "category", "abcGrade", "xyzGrade", "dailyAvg", "dailyStd">>
      [] type = "initial_stock" -> <<"sku", "warehouse", "location", "onHand">>
      [] type = "movements" -> <<"sku", "warehouse", "location", "partner", "type", "quantity">>

\* Mutation of validateHeaders: only the first required column is looked for.
validateHeadersFirstOnly(type, headers) ==
    IF Head(RequiredColumns(type)) \notin Range(headers)
    THEN <<Head(RequiredColumns(type))>> ELSE <<>>

validateHeaders(type, headers) ==
    LET InHeaders(h) == h \notin Range(headers)
    IN  SelectSeq(RequiredColumns(type), InHeaders)

(***************************************************************************)
(* Product store (routes/products): catalog lookups and upsert.            *)
(***************************************************************************)
findProductBySku(products, sku) ==
    \E i \in DOMAIN products : products[i].sku = sku

validateProductPayload(candidate) ==
    LET errors ==
            (IF candidate.sku = "" THEN <<"sku is required">> ELSE <<>>)
         \o (IF candidate.name = "" THEN <<"name is required">> ELSE <<>>)
         \o (IF candidate.onHand.kind = "nan" THEN <<"onHand must be a number">> ELSE <<>>)
    IN  [success |-> errors = <<>>,
         errors |-> errors,
         value |-> [sku |-> candidate.sku, name |-> candidate.name,
                    onHand |-> NumOr(candidate.onHand, 0)]]

upsertProduct(products, payload) ==
    IF findProductBySku(products, payload.sku)
    THEN [i \in DOMAIN products |->
            IF products[i].sku = payload.sku THEN payload ELSE products[i]]
    ELSE Append(products, payload)

(***************************************************************************)
(* Row classifiers.                                                        *)
(***************************************************************************)
\* Mutation of ErrorRow: the rejected row carries no messages.
ErrorRowSilent(raw, lineNumber, messages) ==
    [index |-> lineNumber - 1, lineNumber |-> lineNumber, action |-> "error",
     raw |-> raw, messages |-> <<>>, payload |-> NoPayload]

ErrorRow(raw, lineNumber, messages) ==
    [index |-> lineNumber - 1, lineNumber |-> lineNumber, action |-> "error",
     raw |-> raw, messages |-> messages, payload |-> NoPayload]

\* Mutation of PayloadRow: an accepted row is always a 'create'.
PayloadRowCreate(raw, lineNumber, existing, payload) ==
    [index |-> lineNumber - 1, lineNumber |-> lineNumber, action |-> "create",
     raw |-> raw, messages |-> <<>>, payload |-> payload]

PayloadRow(raw, lineNumber, existing, payload) ==
    [index |-> lineNumber - 1, lineNumber |-> lineNumber,
     action |-> IF existing THEN "update" ELSE "create",
     raw |-> raw, messages |-> <<>>, payload |-> payload]

parseProductRow(raw, lineNumber, products) ==
    LET candidate == [sku |-> normalizeKey(raw.sku),
                      name |-> normalizeKey(raw.name),
                      onHand |-> parseNumber(raw.onHand)]
        validation == validateProductPayload(candidate)
    IN  IF ~validation.success
        THEN ErrorRow(raw, lineNumber, validation.errors)
        ELSE PayloadRow(raw, lineNumber,
                        findProductBySku(products, validation.value.sku),
                        validation.value)

LocationErrors(warehouse, location) ==
       (IF warehouse = "" THEN <<"warehouse is required">>
        ELSE IF warehouse \notin DOMAIN warehouseCatalog
             THEN <<"unregistered warehouse code">> ELSE <<>>)
    \o (IF location = "" THEN <<"location is required">>
        ELSE IF /\ warehouse # ""
                /\ warehouse \in DOMAIN warehouseCatalog
                /\ location \notin Range(warehouseCatalog[warehouse])
             THEN <<"location does not exist in warehouse">> ELSE <<>>)

SkuErrors(sku, products) ==
       (IF sku = "" THEN <<"sku is required">> ELSE <<>>)
    \o (IF sku # "" /\ ~findProductBySku(products, sku)
        THEN <<"unknown SKU">> ELSE <<>>)

\* Mutation of StockExists: the stock store is never consulted.
StockExistsNever(stock, key) == FALSE

\* const existing = initialStockStore.get(key)
StockExists(stock, key) == key \in DOMAIN stock

parseInitialStockRow(raw, lineNumber, products, stock) ==
    LET sku == normalizeKey(raw.sku)
        warehouse == toUpperCase(normalizeKey(raw.warehouse))
        location == toUpperCase(normalizeKey(raw.location))
        onHandValue == parseNumber(raw.onHand)
        reservedValue == parseNumber(raw.reserved)
        errors ==
               SkuErrors(sku, products)
            \o LocationErrors(warehouse, location)
            \o (IF onHandValue.kind # "num" THEN <<"onHand must be a number">> ELSE <<>>)
            \o (IF reservedValue.kind = "nan" THEN <<"reserved must be a number">> ELSE <<>>)
        payload == [sku |-> sku, warehouse |-> warehouse, location |-> location,
                    onHand |-> Max(Round(NumOr(onHandValue, 0)), 0),
                    reserved |-> Max(Round(NumOr(reservedValue, 0)), 0)]
        key == buildStockKey(sku, warehouse, location)
    IN  IF Len(errors) > 0
        THEN ErrorRow(raw, lineNumber, errors)
        ELSE PayloadRow(raw, lineNumber, StockExists(stock, key), payload)

\* new Date(text): "" is absent, "d1" is a valid date, anything else is not.
parseDate(text) ==
    CASE text = "d1" -> Num(1)
      [] OTHER -> NaN

parseMovementRow(raw, lineNumber, products, now) ==
    LET sku == normalizeKey(raw.sku)
        warehouse == toUpperCase(normalizeKey(raw.warehouse))
        location == toUpperCase(normalizeKey(raw.location))
        partner == toUpperCase(normalizeKey(raw.partner))
        quantityValue == parseNumber(raw.quantity)
        type == toUpperCase(normalizeKey(raw.type))
        normalizedType ==
            IF type \in {"IN", "INBOUND"} THEN "INBOUND"
            ELSE IF type \in {"OUT", "OUTBOUND"} THEN "OUTBOUND"
            ELSE "undefined"
        occurredAtRaw == normalizeKey(raw.occurredAt)
        parsed == parseDate(occurredAtRaw)
        errors ==
               SkuErrors(sku, products)
            \o LocationErrors(warehouse, location)
            \o (IF partner = "" THEN <<"partner is required">>
                ELSE IF partner \notin partnerCatalog
                     THEN <<"unregistered partner code">> ELSE <<>>)
            \o (IF quantityValue.kind # "num" THEN <<"quantity must be a number">>
                ELSE IF Round(quantityValue.val) = 0
                     THEN <<"quantity cannot be 0">> ELSE <<>>)
            \o (IF type = "" THEN <<"type is required">>
                ELSE IF normalizedType = "undefined"
                     THEN <<"type must be INBOUND or OUTBOUND">> ELSE <<>>)
            \o (IF occurredAtRaw # "" /\ parsed.kind = "nan"
                THEN <<"occurredAt is not a date">> ELSE <<>>)
        payload == [sku |-> sku, warehouse |-> warehouse, location |-> location,
                    partner |-> partner,
                    quantity |-> Round(NumOr(quantityValue, 0)),
                    type |-> normalizedType,
                    reference |-> normalizeKey(raw.reference),
                    occurredAt |-> IF occurredAtRaw # "" THEN parsed.val ELSE now]
    IN  IF Len(errors) > 0 \/ normalizedType = "undefined"
        THEN ErrorRow(raw, lineNumber, errors)
        ELSE PayloadRow(raw, lineNumber, FALSE, payload)

\* Mutation of analyzeRows: a stock row is looked up in the stock store
\* extended with the keys of the accepted rows before it in the table.
analyzeRowsRunning(type, table, products, stock, now) ==
    [index \in DOMAIN table |->
        LET lineNumber == (index - 1) + 2
            earlier == { parseInitialStockRow(table[j], j + 1, products, stock) :
                            j \in 1..(index - 1) }
            keys == { buildStockKey(row.payload.sku, row.payload.warehouse,
                                    row.payload.location) :
                        row \in { e \in earlier : e.action # "error" } }
            seen == [k \in DOMAIN stock \cup keys |-> TRUE]
        IN  CASE type = "products" -> parseProductRow(table[index], lineNumber, products)
              [] type = "initial_stock" -> parseInitialStockRow(table[index], lineNumber, products, seen)
              [] type = "movements" -> parseMovementRow(table[index], lineNumber, products, now)]

analyzeRows(type, table, products, stock, now) ==
    [index \in DOMAIN table |->
        LET lineNumber == (index - 1) + 2
        IN  CASE type = "products" -> parseProductRow(table[index], lineNumber, products)
              [] type = "initial_stock" -> parseInitialStockRow(table[index], lineNumber, products, stock)
              [] type = "movements" -> parseMovementRow(table[index], lineNumber, products, now)]

RECURSIVE CountAction(_, _)
CountAction(rows, action) ==
    IF rows = <<>> THEN 0
    ELSE (IF Head(rows).action = action THEN 1 ELSE 0) + CountAction(Tail(rows), action)

\* Mutation of summarizeFrom: an error row is also counted as an update.
RECURSIVE summarizeFromFallThrough(_, _)
summarizeFromFallThrough(rows, acc) ==
    IF rows = <<>> THEN acc
    ELSE LET row == Head(rows)
         IN  summarizeFromFallThrough(Tail(rows),
                IF row.action = "error"
                THEN [acc EXCEPT !.errorCount = @ + 1, !.updateCount = @ + 1]
                ELSE IF row.action = "create"
                     THEN [acc EXCEPT !.newCount = @ + 1]
                     ELSE [acc EXCEPT !.updateCount = @ + 1])

RECURSIVE summarizeFrom(_, _)
summarizeFrom(rows, acc) ==
    IF rows = <<>> THEN acc
    ELSE LET row == Head(rows)
         IN  summarizeFrom(Tail(rows),
                IF row.action = "error"
                THEN [acc EXCEPT !.errorCount = @ + 1]
                ELSE IF row.action = "create"
                     THEN [acc EXCEPT !.newCount = @ + 1]
                     ELSE [acc EXCEPT !.updateCount = @ + 1])

summarizeRows(rows) ==
    summarizeFrom(rows, [total |-> Len(rows), newCount |-> 0, updateCount |-> 0, errorCount |-> 0])

(***************************************************************************)
(* Uploaded content.  A content is the uploaded text after parseCsv: kind  *)
(* "empty" is text that is empty after trim, "blank" is text without any   *)
(* non-blank row, "table" is a header row and data rows.                   *)
(***************************************************************************)
OptionalColumns(type) ==
    CASE type = "products" -> <<"subCategory", "brand", "unit", "packCase", "bufferRatio",
                                "isActive", "onHand", "reserved", "risk", "expiryDays">>
      [] type = "initial_stock" -> <<"reserved">>
      [] type = "movements" -> <<"reference", "occurredAt">>

RawRows(type) ==
    CASE type = "products" ->
            { [sku |-> "S2", name |-> "n2", onHand |-> "2"],
              [sku |-> "", name |-> "n1", onHand |-> "x"] }
      [] type = "initial_stock" ->
            { [sku |-> "S1", warehouse |-> "icn1", location |-> "a-01", onHand |-> "2", reserved |-> ""] }
      [] type = "movements" ->
            { [sku |-> "S1", warehouse |-> "ICN1", location |-> "A-01", partner |-> "SUP-0001",
               type |-> "in", quantity |-> "2", reference |-> "", occurredAt |-> "d1"] }

Tables(type) ==
    UNION { [1..n -> RawRows(type)] : n \in 0..MaxRows }

Contents(type) ==
    { [kind |-> "empty", columns |-> <<>>, rows |-> <<>>],
      [kind |-> "blank", columns |-> <<>>, rows |-> <<>>],
      [kind |-> "table", columns |-> Tail(RequiredColumns(type)), rows |-> <<>>] }
    \cup { [kind |-> "table",
            columns |-> RequiredColumns(type) \o OptionalColumns(type),
            rows |-> t] : t \in Tables(type) }

(***************************************************************************)
(* Initial state: empty caches and queue, a catalog holding product S1.    *)
(***************************************************************************)
NoReply == [op |-> "none", code |-> 0]

NoCsv == [phase |-> "none", text |-> "", table |-> <<>>]

Init ==
    /\ previewCache = <<>>
    /\ nextPreviewId = 1
    /\ jobStore = <<>>
    /\ jobQueue = <<>>
    /\ activeJob = 0
    /\ timers = <<>>
    /\ productStore = << [sku |-> "S1", name |-> "n1", onHand |-> 1] >>
    /\ initialStockStore = <<>>
    /\ movementLog = <<>>
    /\ stockSeeded = FALSE
    /\ clock = 0
    /\ applyLog = <<>>
    /\ reply = NoReply
    /\ csv = NoCsv

(***************************************************************************)
(* Map helpers.                                                            *)
(***************************************************************************)
MapSet(m, k, v) == [x \in DOMAIN m \cup {k} |-> IF x = k THEN v ELSE m[x]]

MapDelete(m, k) == [x \in DOMAIN m \ {k} |-> m[x]]

RemoveAt(s, i) == SubSeq(s, 1, i - 1) \o SubSeq(s, i + 1, Len(s))

(***************************************************************************)
(* seedInitialStock: the first products preview seeds a stock row for each *)
(* of the first three product records.                                     *)
(***************************************************************************)
RECURSIVE seedFrom(_, _, _)
seedFrom(records, index, stock) ==
    IF index >= Len(records) \/ index >= 3 THEN stock
    ELSE LET record == records[index + 1]
             warehouse == warehouseKeys[(index % Len(warehouseKeys)) + 1]
             locations == warehouseCatalog[warehouse]
             location == locations[(index % Len(locations)) + 1]
             key == buildStockKey(record.sku, warehouse, location)
         IN  seedFrom(records, index + 1,
                MapSet(stock, key,
                    [sku |-> record.sku, warehouse |-> warehouse, location |-> location,
                     onHand |-> Max(record.onHand, 0), reserved |-> 0]))

seedInitialStock(records, stock, seeded) ==
    IF seeded THEN stock ELSE seedFrom(records, 0, stock)

(***************************************************************************)
(* Job queue.  The queue state is the record q of jobStore, jobQueue,      *)
(* activeJob and timers; queueJob and processQueue transform it.           *)
(***************************************************************************)
\* Mutation of QueueBusy: the guard on the active job is missing.
QueueBusyNever(q) == FALSE

\* if (activeJob) return;
QueueBusy(q) == q.activeJob # 0

\* Mutation of Shifted: the head is read but left in the queue.
ShiftedPeek(queue) == queue

\* jobQueue.shift(): the queue that is left
Shifted(queue) == Tail(queue)

\* Mutation of Pushed: the job is put at the head of the queue.
PushedFront(queue, id) == <<id>> \o queue

\* Mutation of Pushed: the job is queued twice.
PushedTwice(queue, id) == queue \o <<id, id>>

\* jobQueue.push(job)
Pushed(queue, id) == Append(queue, id)

processQueue(q, now) ==
    IF QueueBusy(q) THEN q
    ELSE IF q.jobQueue = <<>> THEN q
    ELSE LET job == Head(q.jobQueue)
         IN  [jobStore |-> [q.jobStore EXCEPT ![job].status = "processing",
                                              ![job].updatedAt = now],
              jobQueue |-> Shifted(q.jobQueue),
              activeJob |-> job,
              timers |-> Append(q.timers, [kind |-> "processNext", job |-> job, index |-> 0])]

\* Mutation of queueJob: the job is queued and stored, processQueue is not called.
queueJobOnly(q, job, now) ==
    [jobStore |-> Append(q.jobStore, job),
     jobQueue |-> Pushed(q.jobQueue, job.id),
     activeJob |-> q.activeJob,
     timers |-> q.timers]

queueJob(q, job, now) ==
    processQueue([jobStore |-> Append(q.jobStore, job),
                  jobQueue |-> Pushed(q.jobQueue, job.id),
                  activeJob |-> q.activeJob,
                  timers |-> q.timers], now)

Queue == [jobStore |-> jobStore, jobQueue |-> jobQueue,
          activeJob |-> activeJob, timers |-> timers]

SetQueue(q) ==
    /\ jobStore' = q.jobStore
    /\ jobQueue' = q.jobQueue
    /\ activeJob' = q.activeJob
    /\ timers' = q.timers

IsError(row) == row.action = "error"

\* Mutation of SeedErrors: the job starts with an empty error list.
SeedErrorsNone(rows) == <<>>

\* entry.rows.filter((row) => row.action === 'error')
SeedErrors(rows) == SelectSeq(rows, IsError)

\* Mutation of Consumed: a commit leaves the entry in the cache.
ConsumedKept(cache, previewId) == cache

\* previewCache.delete(previewId)
Consumed(cache, previewId) == MapDelete(cache, previewId)

RECURSIVE SumRows(_, _)
SumRows(m, ks) ==
    IF ks = {} THEN 0
    ELSE LET k == CHOOSE x \in ks : TRUE
         IN  Len(m[k].rows) + SumRows(m, ks \ {k})

HeldRows == SumRows(previewCache, DOMAIN previewCache) + SumRows(jobStore, DOMAIN jobStore)

(***************************************************************************)
(* CSV text.  A text is a string; its characters are read one at a time.   *)
(***************************************************************************)
CharAt(text, i) == IF i <= Len(text) THEN SubSeq(text, i, i) ELSE ""

Whitespace == {" ", "\t", "\n", "\r"}

RECURSIVE trimStart(_)
trimStart(value) ==
    IF value # "" /\ Head(value) \in Whitespace THEN trimStart(Tail(value)) ELSE value

RECURSIVE trimEnd(_)
trimEnd(value) ==
    IF value # "" /\ CharAt(value, Len(value)) \in Whitespace
    THEN trimEnd(SubSeq(value, 1, Len(value) - 1))
    ELSE value

\* String.prototype.trim
trim(value) == trimEnd(trimStart(value))

\* The characters a row terminator takes: two for "\r\n".
EndOfRow(char, nextChar) == IF char = "\r" /\ nextChar = "\n" THEN 2 ELSE 1

\* The for loop of parseCsv from position i; st is the record of the
\* loop's variables rows, current, currentRow and inQuotes.
RECURSIVE scanCsv(_, _, _)
scanCsv(text, i, st) ==
    IF i > Len(text) THEN st
    ELSE LET char == CharAt(text, i)
             nextChar == CharAt(text, i + 1)
         IN  IF char = "\""
             THEN IF st.inQuotes /\ nextChar = "\""
                  THEN scanCsv(text, i + 2, [st EXCEPT !.current = @ \o "\""])
                  ELSE scanCsv(text, i + 1, [st EXCEPT !.inQuotes = ~@])
             ELSE IF char = "," /\ ~st.inQuotes
             THEN scanCsv(text, i + 1,
                          [st EXCEPT !.currentRow = Append(@, st.current), !.current = ""])
             ELSE IF char \in {"\n", "\r"} /\ ~st.inQuotes
             THEN scanCsv(text, i + EndOfRow(char, nextChar),
                          [st EXCEPT !.rows = Append(@, Append(st.currentRow, st.current)),
                                     !.current = "", !.currentRow = <<>>])
             ELSE scanCsv(text, i + 1, [st EXCEPT !.current = @ \o char])

parseCsv(text) ==
    LET st == scanCsv(text, 1, [rows |-> <<>>, current |-> "", currentRow |-> <<>>,
                                inQuotes |-> FALSE])
        rows == IF Len(st.currentRow) > 0 \/ st.current # ""
                THEN Append(st.rows, Append(st.currentRow, st.current))
                ELSE st.rows
        trimmed == [r \in DOMAIN rows |-> [c \in DOMAIN rows[r] |-> trim(rows[r][c])]]
        NonBlank(row) == Len(row) > 0 /\ \E c \in DOMAIN row : row[c] # ""
    IN  SelectSeq(trimmed, NonBlank)

\* /[",\n\r]/.test(value)
NeedsQuotes(value) ==
    \E i \in 1..Len(value) : CharAt(value, i) \in {"\"", ",", "\n", "\r"}

\* Mutation of DoubledQuotes: the quotes of the value are left single.
DoubledQuotesNot(value) == value

\* value.replace(/"/g, '""')
RECURSIVE DoubledQuotes(_)
DoubledQuotes(value) ==
    IF value = "" THEN ""
    ELSE (IF Head(value) = "\"" THEN "\"\"" ELSE Head(value)) \o DoubledQuotes(Tail(value))

escapeCsv(value) ==
    IF NeedsQuotes(value) THEN "\"" \o DoubledQuotes(value) \o "\"" ELSE value

\* Array.prototype.join
RECURSIVE Join(_, _)
Join(strings, separator) ==
    IF Len(strings) = 0 THEN ""
    ELSE IF Len(strings) = 1 THEN strings[1]
    ELSE strings[1] \o separator \o Join(Tail(strings), separator)

stringifyCsv(headers, rows) ==
    LET headerLine == Join([c \in DOMAIN headers |-> escapeCsv(headers[c])], ",")
        body == Join([r \in DOMAIN rows |->
                        Join([c \in DOMAIN rows[r] |-> escapeCsv(rows[r][c])], ",")], "\n")
    IN  IF body # "" THEN headerLine \o "\n" \o body ELSE headerLine

buildErrorCsv(job) ==
    LET headers == <<"rowNumber", "messages">> \o job.columns
        rows == [e \in DOMAIN job.errors |->
                    LET row == job.errors[e]
                    IN  <<ToString(row.lineNumber), Join(row.messages, "; ")>>
                        \o [c \in DOMAIN job.columns |->
                                IF job.columns[c] \in DOMAIN row.raw
                                THEN row.raw[job.columns[c]] ELSE ""]]
    IN  stringifyCsv(headers, rows)

(***************************************************************************)
(* HTTP responses.  A response is the status code and the body the handler *)
(* sends; reply keeps the status line of the last response sent.           *)
(***************************************************************************)
Sent(response) == [op |-> response.op, code |-> response.code]

\* missing.map((column) => `${column} ... is required`)
RequiredMessages(missing) ==
    [i \in DOMAIN missing |-> [column |-> missing[i], text |-> "is required"]]

NoRejection == [op |-> "preview", code |-> 200]

\* The 400 responses of the preview stage, or NoRejection.
previewRejection(type, content) ==
    IF content.kind = "empty"
    THEN [op |-> "preview", code |-> 400, error |-> "content is empty"]
    ELSE IF content.kind = "blank"
    THEN [op |-> "preview", code |-> 400, error |-> "no csv data"]
    ELSE LET missing == validateHeaders(type, content.columns)
         IN  IF Len(missing) > 0
             THEN [op |-> "preview", code |-> 400, error |-> "missing headers",
                   details |-> RequiredMessages(missing)]
             ELSE NoRejection

\* .slice(0, 20)
SliceErrors(rows) == SubSeq(rows, 1, IF Len(rows) < 20 THEN Len(rows) ELSE 20)

previewResponse(entry) ==
    LET errorRows == SliceErrors(SelectSeq(entry.rows, IsError))
    IN  [op |-> "preview", code |-> 200, previewId |-> entry.id, type |-> entry.type,
         columns |-> entry.columns, summary |-> entry.summary,
         errors |-> [i \in DOMAIN errorRows |->
                        [rowNumber |-> errorRows[i].lineNumber,
                         messages |-> errorRows[i].messages]]]

commitResponse(job) ==
    [op |-> "commit", code |-> 200,
     job |-> [id |-> job.id, status |-> job.status, total |-> job.total,
              processed |-> job.processed, summary |-> job.summary,
              errorCount |-> Len(job.errors), createdAt |-> job.createdAt]]

jobResponse(job) ==
    [op |-> "job", code |-> 200,
     job |-> [id |-> job.id, status |-> job.status, total |-> job.total,
              processed |-> job.processed, summary |-> job.summary,
              errorCount |-> Len(job.errors), createdAt |-> job.createdAt,
              updatedAt |-> job.updatedAt]]

\* Mutation of NoErrors: the error count of the preview is looked at.
NoErrorsInPreview(job) == job.summary.errorCount = 0

\* job.errors.length === 0
NoErrors(job) == Len(job.errors) = 0

errorsResponse(store, id) ==
    IF id \notin DOMAIN store
    THEN [op |-> "errors", code |-> 404, error |-> "job not found"]
    ELSE IF NoErrors(store[id])
    THEN [op |-> "errors", code |-> 204]
    ELSE [op |-> "errors", code |-> 200, body |-> buildErrorCsv(store[id])]

(***************************************************************************)
(* POST /upload, stage preview.                                            *)
(***************************************************************************)
\* Mutation of Cached: the cache holds the latest entry only.
CachedLatest(cache, previewId, entry) == [x \in {previewId} |-> entry]

\* previewCache.set(previewId, entry)
Cached(cache, previewId, entry) == MapSet(cache, previewId, entry)

Preview(type, content) ==
    IF previewRejection(type, content) # NoRejection
    THEN /\ reply' = Sent(previewRejection(type, content))
         /\ UNCHANGED <<stores, nextPreviewId, clock, csv, applyLog>>
    ELSE /\ nextPreviewId <= MaxPreviews
         /\ HeldRows + Len(content.rows) <= MaxRows
         /\ LET stock == IF type = "products"
                         THEN seedInitialStock(productStore, initialStockStore, stockSeeded)
                         ELSE initialStockStore
                parsedRows == analyzeRows(type, content.rows, productStore, stock, clock)
                summary == summarizeRows(parsedRows)
                previewId == nextPreviewId
                entry == [id |-> previewId, type |-> type, columns |-> content.columns,
                          rows |-> parsedRows, summary |-> summary, createdAt |-> clock]
            IN  /\ initialStockStore' = stock
                /\ stockSeeded' = (stockSeeded \/ type = "products")
                /\ previewCache' = Cached(previewCache, previewId, entry)
                /\ nextPreviewId' = nextPreviewId + 1
                /\ reply' = Sent(previewResponse(entry))
         /\ UNCHANGED <<jobStore, jobQueue, activeJob, timers, productStore,
                        movementLog, clock, csv, applyLog>>

(***************************************************************************)
(* POST /upload, stage commit.  previewId 0 is a request without one.      *)
(***************************************************************************)
Commit(type, previewId) ==
    IF previewId = 0 \/ previewId \notin DOMAIN previewCache
    THEN /\ reply' = [op |-> "commit", code |-> 400]
         /\ UNCHANGED <<stores, nextPreviewId, clock, csv, applyLog>>
    ELSE LET entry == previewCache[previewId]
         IN  /\ previewCache' = Consumed(previewCache, previewId)
             /\ IF entry.type # type
                THEN /\ reply' = [op |-> "commit", code |-> 400]
                     /\ UNCHANGED <<jobStore, jobQueue, activeJob, timers>>
                ELSE LET jobId == Len(jobStore) + 1
                         errorRows == SeedErrors(entry.rows)
                         job == [id |-> jobId, type |-> type, status |-> "pending",
                                 total |-> Len(entry.rows), processed |-> 0,
                                 summary |-> entry.summary, columns |-> entry.columns,
                                 rows |-> entry.rows, errors |-> errorRows,
                                 createdAt |-> clock, updatedAt |-> clock]
                         q == queueJob(Queue, job, clock)
                     IN  /\ SetQueue(q)
                         /\ reply' = Sent(commitResponse(q.jobStore[jobId]))
             /\ UNCHANGED <<nextPreviewId, productStore, initialStockStore,
                            movementLog, stockSeeded, clock, csv, applyLog>>

(***************************************************************************)
(* applyRow: the upsert of one accepted row.  ext is the record of the     *)
(* three external stores.  Only the product upsert can throw; when it      *)
(* does, the catalog is left as it was.                                    *)
(***************************************************************************)
Ext == [productStore |-> productStore, initialStockStore |-> initialStockStore,
        movementLog |-> movementLog]

CanThrow(type) == type = "products"

\* Mutation of Logged: a movement equal to a logged one is not logged again.
LoggedOnce(log, payload) ==
    IF \E k \in DOMAIN log : log[k] = payload THEN log ELSE Append(log, payload)

\* movementLog.push(row.payload)
Logged(log, payload) == Append(log, payload)

\* initialStockStore.set(key, payload)
StockSet(stock, key, payload) == MapSet(stock, key, payload)

applyRow(type, row, ext, throws) ==
    IF row.payload = NoPayload \/ row.action = "error" THEN ext
    ELSE CASE type = "products" ->
                IF throws THEN ext
                ELSE [ext EXCEPT !.productStore = upsertProduct(@, row.payload)]
           [] type = "initial_stock" ->
                [ext EXCEPT !.initialStockStore =
                    StockSet(@, buildStockKey(row.payload.sku, row.payload.warehouse,
                                              row.payload.location), row.payload)]
           [] type = "movements" ->
                [ext EXCEPT !.movementLog = Logged(@, row.payload)]

(***************************************************************************)
(* Timer callback processNext(index) of job id; pending is the timer list  *)
(* without the timer that fired.                                           *)
(***************************************************************************)
\* Mutation of ShouldApply: every row is handed to applyRow.
ShouldApplyAlways(row) == TRUE

\* if (row.action !== 'error' && row.payload)
ShouldApply(row) == row.action # "error" /\ row.payload # NoPayload

\* Mutation of CaughtErrors: the exception is swallowed without a record.
CaughtErrorsDropped(errors, row, message) == errors

\* Mutation of CaughtErrors: the failed row is put in front of the list.
CaughtErrorsFirst(errors, row, message) ==
    <<[row EXCEPT !.action = "error", !.messages = <<message>>]>> \o errors

\* job.errors.push({ ...row, action: 'error', messages: [message] })
CaughtErrors(errors, row, message) ==
    Append(errors, [row EXCEPT !.action = "error", !.messages = <<message>>])

\* Mutation of Processed: the counter runs one ahead.
ProcessedAhead(index) == index + 2

\* job.processed = index + 1
Processed(index) == index + 1

\* Mutation of NextIndex: the same row is scheduled again.
NextIndexSame(index) == index

\* setTimeout(() => processNext(index + 1), 15)
NextIndex(index) == index + 1

\* Mutation of RowDone: the summary is recounted from the error list.
RowDoneRecount(job, errors, index, now) ==
    [job EXCEPT !.errors = errors, !.processed = Processed(index), !.updatedAt = now,
                !.summary.errorCount = Len(errors)]

\* The job after processNext handled row index: errors pushed,
\* job.processed = index + 1, job.updatedAt = Date.now()
RowDone(job, errors, index, now) ==
    [job EXCEPT !.errors = errors, !.processed = Processed(index), !.updatedAt = now]

\* Mutation of CompletionTimers: no wake-up is scheduled on completion.
CompletionTimersNone(pending) == pending

\* setTimeout(() => processQueue(), 0) on completion
CompletionTimers(pending) ==
    Append(pending, [kind |-> "processQueue", job |-> 0, index |-> 0])

\* Mutation of Finished: a job with an apply failure ends as 'failed'.
FinishedOrFailed(job, now) ==
    [job EXCEPT !.status = IF Len(job.errors) > job.summary.errorCount
                           THEN "failed" ELSE "completed",
                !.updatedAt = now]

\* job.status = 'completed'; job.updatedAt = Date.now()
Finished(job, now) == [job EXCEPT !.status = "completed", !.updatedAt = now]

processNext(id, index, throws, pending) ==
    LET job == jobStore[id]
    IN  IF activeJob = 0 \/ activeJob # id
        THEN /\ timers' = pending
             /\ UNCHANGED <<jobStore, activeJob, productStore, initialStockStore,
                            movementLog, applyLog>>
        ELSE IF index >= Len(job.rows)
        THEN /\ jobStore' = [jobStore EXCEPT ![id] = Finished(job, clock)]
             /\ activeJob' = 0
             /\ timers' = CompletionTimers(pending)
             /\ UNCHANGED <<productStore, initialStockStore, movementLog, applyLog>>
        ELSE LET row == job.rows[index + 1]
                 applies == ShouldApply(row)
                 threw == applies /\ throws
                 ext == IF applies THEN applyRow(job.type, row, Ext, throws) ELSE Ext
                 errors == IF threw
                           THEN CaughtErrors(job.errors, row, "upsert failed")
                           ELSE job.errors
             IN  /\ productStore' = ext.productStore
                 /\ initialStockStore' = ext.initialStockStore
                 /\ movementLog' = ext.movementLog
                 /\ applyLog' = IF applies
                                THEN Append(applyLog, [job |-> id, index |-> index, threw |-> threw])
                                ELSE applyLog
                 /\ jobStore' = [jobStore EXCEPT ![id] = RowDone(job, errors, index, clock)]
                 /\ timers' = Append(pending, [kind |-> "processNext", job |-> id,
                                                index |-> NextIndex(index)])
                 /\ UNCHANGED activeJob

TimerProcessNext(i, throws) ==
    /\ i \in DOMAIN timers
    /\ timers[i].kind = "processNext"
    /\ throws => CanThrow(jobStore[timers[i].job].type)
    /\ processNext(timers[i].job, timers[i].index, throws, RemoveAt(timers, i))
    /\ UNCHANGED <<previewCache, nextPreviewId, jobQueue, stockSeeded, clock, csv, reply>>

(***************************************************************************)
(* Timer callback () => processQueue(), scheduled when a job completes.    *)
(***************************************************************************)
TimerProcessQueue(i) ==
    /\ i \in DOMAIN timers
    /\ timers[i].kind = "processQueue"
    /\ SetQueue(processQueue([Queue EXCEPT !.timers = RemoveAt(timers, i)], clock))
    /\ UNCHANGED <<previewCache, nextPreviewId, productStore, initialStockStore,
                   movementLog, stockSeeded, clock, csv, applyLog, reply>>

(***************************************************************************)
(* GET /jobs/:id.                                                          *)
(***************************************************************************)
GetJob(id) ==
    /\ reply' = IF id \in DOMAIN jobStore
                THEN Sent(jobResponse(jobStore[id]))
                ELSE [op |-> "job", code |-> 404]
    /\ UNCHANGED <<stores, nextPreviewId, clock, csv, applyLog>>

(***************************************************************************)
(* GET /jobs/:id/errors.                                                   *)
(***************************************************************************)
GetJobErrors(id) ==
    /\ reply' = Sent(errorsResponse(jobStore, id))
    /\ UNCHANGED <<stores, nextPreviewId, clock, csv, applyLog>>

\* previewId of a commit request: 0 is a request without one
PreviewIds == 0..MaxPreviews

Next ==
    \/ \E type \in CSV_TYPES : \E content \in Contents(type) : Preview(type, content)
    \/ \E type \in CSV_TYPES : \E previewId \in PreviewIds : Commit(type, previewId)
    \/ \E i \in DOMAIN timers : \E throws \in BOOLEAN : TimerProcessNext(i, throws)
    \/ \E i \in DOMAIN timers : TimerProcessQueue(i)
    \/ \E id \in 1..(MaxPreviews + 1) : GetJob(id)

Spec == Init /\ [][Next]_vars

\* A timer callback: one of the pending timers fires.
TimerStep ==
    \/ \E i \in DOMAIN timers : \E throws \in BOOLEAN : TimerProcessNext(i, throws)
    \/ \E i \in DOMAIN timers : TimerProcessQueue(i)

\* The event loop runs scheduled timer callbacks: while timers are pending,
\* one of them eventually fires.
FairSpec == Init /\ [][Next]_vars /\ WF_vars(TimerStep)

(***************************************************************************)
(* Properties.                                                             *)
(***************************************************************************)
LastJob(store) == store[Len(store)]

JobsWithStatus(status) == {i \in DOMAIN jobStore : jobStore[i].status = status}

PendingTimers(kind) == {i \in DOMAIN timers : timers[i].kind = kind}

\* C1: a commit whose previewId is not in the preview cache (never issued,
\* or consumed by an earlier commit) answers 400 and changes no store; a
\* step that creates a job creates exactly one and removes exactly one
\* token that was in the cache; a token entering the cache is a fresh one.
\* Hence no token yields two jobs.
C1_AbsentTokenCommitFails ==
    [][ /\ \A previewId \in PreviewIds \ DOMAIN previewCache : \A type \in CSV_TYPES :
            Commit(type, previewId)
                => /\ reply' = [op |-> "commit", code |-> 400]
                   /\ UNCHANGED <<stores, nextPreviewId, applyLog>>
        /\ Len(jobStore') # Len(jobStore)
            => /\ Len(jobStore') = Len(jobStore) + 1
               /\ reply' = [op |-> "commit", code |-> 200]
               /\ \E previewId \in DOMAIN previewCache :
                    /\ DOMAIN previewCache' = DOMAIN previewCache \ {previewId}
                    /\ LastJob(jobStore').rows = previewCache[previewId].rows
        /\ \A previewId \in DOMAIN previewCache' \ DOMAIN previewCache :
                previewId = nextPreviewId /\ nextPreviewId' > previewId
        /\ nextPreviewId' >= nextPreviewId
      ]_vars

\* A commit of a consumed token has just failed: the only token issued is
\* out of the cache, its job exists, and the last answer is a commit's 400.
C1_Witness ==
    /\ nextPreviewId = 2
    /\ DOMAIN previewCache = {}
    /\ Len(jobStore) = 1
    /\ reply = [op |-> "commit", code |-> 400]

\* C2: an entry leaves the preview cache only in a step that creates a job
\* of the entry's upload type; a commit with a mismatching type leaves the
\* entry in the cache.
C2_EntryRemovedOnlyByMatchingCommit ==
    [][ \A previewId \in DOMAIN previewCache \ DOMAIN previewCache' :
            /\ Len(jobStore') = Len(jobStore) + 1
            /\ LastJob(jobStore').type = previewCache[previewId].type
      ]_vars

\* C3: at most one job of the job store has status 'processing'.
C3_SingleFlight == Cardinality(JobsWithStatus("processing")) <= 1

\* One job is processing while two later ones wait in the queue.
C3_Witness ==
    /\ Cardinality(JobsWithStatus("processing")) = 1
    /\ Cardinality(JobsWithStatus("pending")) = 2
    /\ Len(jobQueue) = 2

\* C4: jobs leave 'pending' in commit order (job ids are handed out in
\* commit order): a job is 'processing' or 'completed' only when every job
\* committed before it is 'completed', and the queue holds the waiting jobs
\* in commit order.
C4_Fifo ==
    /\ \A i \in DOMAIN jobStore : \A j \in DOMAIN jobStore :
            (i < j /\ jobStore[j].status # "pending") => jobStore[i].status = "completed"
    /\ \A a \in DOMAIN jobQueue : \A b \in DOMAIN jobQueue :
            a < b => jobQueue[a] < jobQueue[b]

\* The gap: job 1 has completed and its processQueue wake-up is still
\* pending, a commit made in the gap has started job 2, job 3 waits.
C4_Witness ==
    /\ Len(jobStore) = 3
    /\ jobStore[1].status = "completed"
    /\ jobStore[2].status = "processing"
    /\ jobStore[3].status = "pending"
    /\ jobQueue = <<3>>
    /\ PendingTimers("processQueue") # {}

StatusStep(a, b) ==
    \/ a = b
    \/ a = "pending" /\ b = "processing"
    \/ a = "processing" /\ b \in {"completed", "failed"}

\* C5: the status of a job changes only pending -> processing and
\* processing -> completed (or failed); a job is never removed, and a job
\* that enters the store is 'pending', or already 'processing' when the
\* commit handler's own processQueue call started it.
C5_StatusTransitions ==
    [][ /\ DOMAIN jobStore \subseteq DOMAIN jobStore'
        /\ \A i \in DOMAIN jobStore : StatusStep(jobStore[i].status, jobStore'[i].status)
        /\ \A i \in DOMAIN jobStore' \ DOMAIN jobStore :
                jobStore'[i].status \in {"pending", "processing"}
      ]_vars

\* A job with rows has run through all three statuses while the next one
\* is processing.
C5_Witness ==
    /\ Len(jobStore) >= 2
    /\ jobStore[1].status = "completed"
    /\ jobStore[1].total >= 1
    /\ jobStore[2].status = "processing"
    /\ jobStore[2].processed >= 1

ProcessedInRange ==
    \A i \in DOMAIN jobStore :
        /\ 0 <= jobStore[i].processed
        /\ jobStore[i].processed <= jobStore[i].total
        /\ jobStore[i].status = "pending" => jobStore[i].processed = 0

\* C6: processed starts at 0, stays within 0..total, is 0 while the job is
\* 'pending', and changes only by +1.
C6_ProcessedMonotone ==
    /\ []ProcessedInRange
    /\ [][ /\ \A i \in DOMAIN jobStore \cap DOMAIN jobStore' :
                \/ jobStore'[i].processed = jobStore[i].processed
                \/ jobStore'[i].processed = jobStore[i].processed + 1
           /\ \A i \in DOMAIN jobStore' \ DOMAIN jobStore : jobStore'[i].processed = 0
         ]_vars

\* A job half way through its rows.
C6_Witness ==
    \E i \in DOMAIN jobStore :
        /\ jobStore[i].status = "processing"
        /\ jobStore[i].processed = 1
        /\ jobStore[i].total = 2

Applies(id, index) ==
    {k \in DOMAIN applyLog : applyLog[k].job = id /\ applyLog[k].index = index}

\* C7: a 'completed' job has processed = total, each of its create/update
\* rows was handed to applyRow exactly once, and no error row of any job
\* was ever handed to applyRow.
C7_CompletedAppliedOnce ==
    /\ \A i \in DOMAIN jobStore :
            jobStore[i].status = "completed" =>
                /\ jobStore[i].processed = jobStore[i].total
                /\ jobStore[i].total = Len(jobStore[i].rows)
                /\ \A r \in DOMAIN jobStore[i].rows :
                        jobStore[i].rows[r].action \in {"create", "update"}
                            => Cardinality(Applies(i, r - 1)) = 1
    /\ \A k \in DOMAIN applyLog :
            jobStore[applyLog[k].job].rows[applyLog[k].index + 1].action # "error"

\* A completed job that had one error row and one accepted row.
C7_Witness ==
    \E i \in DOMAIN jobStore :
        /\ jobStore[i].status = "completed"
        /\ jobStore[i].total = 2
        /\ jobStore[i].rows[1].action = "error"
        /\ jobStore[i].rows[2].action = "create"
        /\ Cardinality(Applies(i, 1)) = 1

Threw(id) == {k \in DOMAIN applyLog : applyLog[k].job = id /\ applyLog[k].threw}

\* The step in which applyRow threw on row e.index of job e.job.
ThrowStep(e) ==
    LET before == jobStore[e.job]
        after == jobStore'[e.job]
        row == before.rows[e.index + 1]
        entry == after.errors[Len(after.errors)]
    IN  /\ after.status = "processing"
        /\ activeJob' = e.job
        /\ Len(after.errors) = Len(before.errors) + 1
        /\ SubSeq(after.errors, 1, Len(before.errors)) = before.errors
        /\ entry.raw = row.raw
        /\ entry.lineNumber = row.lineNumber
        /\ entry.action = "error"
        /\ Len(entry.messages) = 1
        /\ UNCHANGED <<productStore, initialStockStore, movementLog>>
        /\ after.processed = e.index + 1
        /\ \E t \in DOMAIN timers' :
                timers'[t] = [kind |-> "processNext", job |-> e.job, index |-> e.index + 1]

\* C8: when applyRow throws on row i the job stays 'processing', exactly one
\* entry with row i's raw cells and lineNumber and a single message is
\* appended to job.errors, the external stores keep what earlier rows wrote,
\* row i + 1 is scheduled; the rows after a failed one are applied, and
\* under fair timers the job reaches 'completed'.
C8_RowFailureIsolated ==
    /\ [][ Len(applyLog') > Len(applyLog) =>
             /\ Len(applyLog') = Len(applyLog) + 1
             /\ applyLog'[Len(applyLog')].threw => ThrowStep(applyLog'[Len(applyLog')])
         ]_vars
    /\ [](\A i \in DOMAIN jobStore :
            jobStore[i].status \in {"pending", "processing", "completed"})
    /\ []<>(\A k \in DOMAIN applyLog :
            /\ applyLog[k].threw => jobStore[applyLog[k].job].status = "completed")

\* A completed job whose first row threw and whose second row was applied,
\* its product now in the catalog.
C8_Witness ==
    \E i \in DOMAIN jobStore :
        /\ jobStore[i].status = "completed"
        /\ \E k \in Threw(i) : applyLog[k].index = 0
        /\ \E k \in Applies(i, 1) : ~applyLog[k].threw
        /\ Len(jobStore[i].errors) = 1
        /\ findProductBySku(productStore, "S2")

\* C9: job.errors starts as the preview's error rows and later holds them
\* followed by one entry per row whose apply threw:
\* errors.length = summary.errorCount + number of throws so far.
C9_ErrorsCount ==
    \A i \in DOMAIN jobStore :
        LET job == jobStore[i]
        IN  /\ job.summary.errorCount = CountAction(job.rows, "error")
            /\ Len(job.errors) = job.summary.errorCount + Cardinality(Threw(i))
            /\ SubSeq(job.errors, 1, job.summary.errorCount) = SelectSeq(job.rows, IsError)
            /\ Len(job.errors) >= job.summary.errorCount

\* A completed job with one preview error row and one row that threw.
C9_Witness ==
    \E i \in DOMAIN jobStore :
        /\ jobStore[i].status = "completed"
        /\ jobStore[i].summary.errorCount = 1
        /\ Cardinality(Threw(i)) = 1
        /\ Len(jobStore[i].errors) = 2

AllJobsCompleted == \A id \in DOMAIN jobStore : jobStore[id].status = "completed"

\* C10: under fair execution of the timer callbacks every job of the job
\* store reaches 'completed': again and again all jobs committed so far are
\* 'completed' (a job never leaves the store nor the status 'completed').
C10_EveryJobCompletes == []<>AllJobsCompleted

\* Three jobs were committed and all of them completed, one with a row
\* that failed to apply.
C10_Witness ==
    /\ Len(jobStore) = 3
    /\ AllJobsCompleted
    /\ \E k \in DOMAIN applyLog : applyLog[k].threw

\* A step of the preview handler: it answers a preview request.
PreviewStep ==
    \E type \in CSV_TYPES : \E content \in Contents(type) : Preview(type, content)

\* C11: a preview request, whatever its upload type and content, leaves the
\* product catalog, the stock store and the movement log as they were.
C11_PreviewLeavesExternalStores ==
    [][ PreviewStep => UNCHANGED <<productStore, initialStockStore, movementLog>> ]_vars

(***************************************************************************)
(* Header validation.  HeaderSpec uploads header rows of every shape: the  *)
(* required columns with a run of up to MaxMissing of them left out, the   *)
(* required columns followed by the optional ones, and the required        *)
(* columns with the first one in another case.  Data rows are not analyzed *)
(* in this specification: a table with a complete header row has none, and *)
(* MaxUploads previews are accepted.                                       *)
(***************************************************************************)
MaxMissing == 2         \* required columns left out of a header row
MaxUploads == 2         \* previews accepted in HeaderSpec

Without(columns, dropped) ==
    LET Kept(column) == column \notin dropped
    IN  SelectSeq(columns, Kept)

CompleteHeader(type, columns) == Range(RequiredColumns(type)) \subseteq Range(columns)

HeaderRows(type) ==
    LET required == RequiredColumns(type)
        runs == { {required[k] : k \in a..b} :
                    a \in 1..Len(required), b \in 0..Len(required) }
    IN  { Without(required, dropped) : dropped \in { d \in runs : Cardinality(d) <= MaxMissing } }
        \cup { required \o OptionalColumns(type), <<"SKU">> \o Tail(required) }

HeaderContents(type) ==
    { [kind |-> "empty", columns |-> <<>>, rows |-> <<>>],
      [kind |-> "blank", columns |-> <<>>, rows |-> <<>>] }
    \cup { [kind |-> "table", columns |-> columns, rows |-> <<>>] : columns \in HeaderRows(type) }
    \cup { [kind |-> "table", columns |-> Tail(RequiredColumns(type)), rows |-> <<raw>>] :
                raw \in RawRows(type) }

\* The uploads of HeaderSpec, per upload type.
HeaderUploads == [type \in CSV_TYPES |-> HeaderContents(type)]

HeaderNext ==
    \/ \E type \in CSV_TYPES : \E content \in HeaderUploads[type] :
            /\ CompleteHeader(type, content.columns) => nextPreviewId <= MaxUploads
            /\ Preview(type, content)
    \/ \E type \in CSV_TYPES : \E previewId \in PreviewIds : Commit(type, previewId)
    \/ \E i \in DOMAIN timers : \E throws \in BOOLEAN : TimerProcessNext(i, throws)
    \/ \E i \in DOMAIN timers : TimerProcessQueue(i)
    \/ \E id \in 1..(MaxPreviews + 1) : GetJob(id)

HeaderSpec == Init /\ [][HeaderNext]_vars

\* The content is empty, has no non-blank row, or its header row lacks a
\* required column.
StructuralFailure(type, content) ==
    \/ content.kind \in {"empty", "blank"}
    \/ content.kind = "table" /\ ~CompleteHeader(type, content.columns)

\* The uploads of HeaderSpec that fail structurally, per upload type.
RejectedUploads ==
    [type \in CSV_TYPES |-> { content \in HeaderUploads[type] : StructuralFailure(type, content) }]

MissingColumns(type, columns) == Range(RequiredColumns(type)) \ Range(columns)

\* C12: a preview of a content that is empty, has no non-blank row or lacks
\* a required header column answers 400 and changes neither the preview
\* cache, the token counter nor any other store; the details of the
\* missing-header response name each missing required column once and
\* nothing else.
C12_StructuralFailureRejected ==
    [][ \A type \in CSV_TYPES : \A content \in RejectedUploads[type] :
            (reply'.op = "preview" /\ Preview(type, content)) =>
                /\ reply' = [op |-> "preview", code |-> 400]
                /\ UNCHANGED <<stores, nextPreviewId, applyLog>>
                /\ content.kind = "table" =>
                        LET details == previewRejection(type, content).details
                        IN  /\ { details[i].column : i \in DOMAIN details }
                                    = MissingColumns(type, content.columns)
                            /\ Len(details) = Cardinality(MissingColumns(type, content.columns))
      ]_vars

\* A preview was rejected while the cache held a token and a job was
\* processing; the token is still there.
C12_Witness ==
    /\ reply = [op |-> "preview", code |-> 400]
    /\ DOMAIN previewCache # {}
    /\ JobsWithStatus("processing") # {}

\* The row lists that were summarized: those of the preview cache entries
\* and of the jobs, each with the summary computed for it.
Summarized ==
    { [rows |-> previewCache[id].rows, summary |-> previewCache[id].summary] :
            id \in DOMAIN previewCache }
    \cup { [rows |-> jobStore[id].rows, summary |-> jobStore[id].summary] :
            id \in DOMAIN jobStore }

\* C13: the summary of a row list has total = number of rows, newCount =
\* number of 'create' rows, updateCount = number of 'update' rows,
\* errorCount = number of 'error' rows, and total = newCount + updateCount
\* + errorCount.
C13_SummaryPartition ==
    \A s \in Summarized :
        /\ s.summary = summarizeRows(s.rows)
        /\ s.summary.total = Len(s.rows)
        /\ s.summary.newCount = CountAction(s.rows, "create")
        /\ s.summary.updateCount = CountAction(s.rows, "update")
        /\ s.summary.errorCount = CountAction(s.rows, "error")
        /\ s.summary.total = s.summary.newCount + s.summary.updateCount + s.summary.errorCount

\* A batch of an error row and a new product was summarized.
C13_Witness ==
    \E s \in Summarized :
        /\ s.summary.total = 2
        /\ s.summary.errorCount = 1
        /\ s.summary.newCount = 1

(***************************************************************************)
(* Product classification.  CatalogSpec uploads product batches over a row *)
(* of the catalogued SKU S1, a row of the SKU S2 that no product has until *)
(* a job creates it, and a row that fails validation.                      *)
(***************************************************************************)
CatalogRows ==
    { [sku |-> "S1", name |-> "n1", onHand |-> "1"],
      [sku |-> "S2", name |-> "n2", onHand |-> "2"],
      [sku |-> "", name |-> "n1", onHand |-> "x"] }

CatalogContents ==
    { [kind |-> "table",
       columns |-> RequiredColumns("products") \o OptionalColumns("products"),
       rows |-> t] : t \in UNION { [1..n -> CatalogRows] : n \in 0..MaxRows } }

CatalogNext ==
    \/ \E content \in CatalogContents :
            /\ nextPreviewId <= MaxUploads
            /\ Preview("products", content)
    \/ \E type \in CSV_TYPES : \E previewId \in PreviewIds : Commit(type, previewId)
    \/ \E i \in DOMAIN timers : \E throws \in BOOLEAN : TimerProcessNext(i, throws)
    \/ \E i \in DOMAIN timers : TimerProcessQueue(i)
    \/ \E id \in 1..(MaxPreviews + 1) : GetJob(id)

CatalogSpec == Init /\ [][CatalogNext]_vars

\* The SKUs of the catalog.
CatalogSkus == { productStore[i].sku : i \in DOMAIN productStore }

\* C14: in the step that previews a products batch, every row that passed
\* validation is an 'update' if the catalog, as it is when the preview is
\* made, has a product of the row's SKU, and a 'create' otherwise; the
\* summary counts the rows accordingly.
C14_ProductClassification ==
    [][ \A previewId \in DOMAIN previewCache' \ DOMAIN previewCache :
            LET entry == previewCache'[previewId]
                accepted == { r \in DOMAIN entry.rows : entry.rows[r].action # "error" }
            IN  entry.type = "products" =>
                    /\ \A r \in accepted :
                            /\ entry.rows[r].action \in {"create", "update"}
                            /\ entry.rows[r].action = "update"
                                    <=> entry.rows[r].payload.sku \in CatalogSkus
                    /\ entry.summary.updateCount =
                            Cardinality({ r \in accepted : entry.rows[r].payload.sku \in CatalogSkus })
                    /\ entry.summary.newCount =
                            Cardinality({ r \in accepted : entry.rows[r].payload.sku \notin CatalogSkus })
      ]_vars

\* A batch of the catalogued SKU S1 and the unknown SKU S2 was previewed:
\* one update, one create, no error.
C14_Witness ==
    \E previewId \in DOMAIN previewCache :
        LET entry == previewCache[previewId]
        IN  /\ entry.type = "products"
            /\ Len(entry.rows) = 2
            /\ entry.rows[1].raw.sku = "S1" /\ entry.rows[1].action = "update"
            /\ entry.rows[2].raw.sku = "S2" /\ entry.rows[2].action = "create"
            /\ entry.summary = [total |-> 2, newCount |-> 1, updateCount |-> 1, errorCount |-> 0]
            /\ "S2" \notin CatalogSkus

\* The fields of a job that the commit takes from the preview entry.
JobFixed(job) == <<job.summary, job.total, job.columns, job.rows>>

\* C15: the summary, total, columns and rows of a job are those of the
\* preview entry its commit consumed and no step changes them; the summary
\* and total a poll reports are the summary of the previewed rows and their
\* number, whatever the job's status and however many applies failed.
C15_JobFixedAtCommit ==
    /\ [][ /\ \A i \in DOMAIN jobStore : JobFixed(jobStore'[i]) = JobFixed(jobStore[i])
           /\ \A i \in DOMAIN jobStore' \ DOMAIN jobStore :
                \E previewId \in DOMAIN previewCache \ DOMAIN previewCache' :
                    LET entry == previewCache[previewId]
                    IN  JobFixed(jobStore'[i])
                            = <<entry.summary, Len(entry.rows), entry.columns, entry.rows>>
         ]_vars
    /\ [](\A i \in DOMAIN jobStore :
            LET polled == jobResponse(jobStore[i]).job
            IN  /\ polled.summary = summarizeRows(jobStore[i].rows)
                /\ polled.total = Len(jobStore[i].rows))

\* A completed job is polled after one of its applies failed: its error
\* list has outgrown the error count of its summary.
C15_Witness ==
    /\ reply = [op |-> "job", code |-> 200]
    /\ \E i \in DOMAIN jobStore :
        /\ jobStore[i].status = "completed"
        /\ jobStore[i].total = 2
        /\ Len(jobStore[i].errors) > jobStore[i].summary.errorCount

(***************************************************************************)
(* Error report.  ReportSpec adds the download of a job's error report to  *)
(* the requests, for MaxUploads accepted previews.                         *)
(***************************************************************************)
JobIds == 1..(MaxPreviews + 1)

ReportNext ==
    \/ \E type \in CSV_TYPES : \E content \in Contents(type) :
            /\ nextPreviewId <= MaxUploads
            /\ Preview(type, content)
    \/ \E type \in CSV_TYPES : \E previewId \in PreviewIds : Commit(type, previewId)
    \/ \E i \in DOMAIN timers : \E throws \in BOOLEAN : TimerProcessNext(i, throws)
    \/ \E i \in DOMAIN timers : TimerProcessQueue(i)
    \/ \E id \in JobIds : GetJob(id)
    \/ \E id \in JobIds : GetJobErrors(id)

ReportSpec == Init /\ [][ReportNext]_vars

\* The positions of the line feeds of a text.
LineBreaks(text) == { i \in 1..Len(text) : CharAt(text, i) = "\n" }

\* C16: a request for the error report of id answers 404 exactly when id is
\* not in the job store, 204 exactly when the job exists and its error list
\* is empty at that moment, and otherwise 200 with a CSV text of a header
\* line and one line per entry of the error list; a completed job without
\* preview errors and without failed applies answers 204.
C16_ErrorReportStatus ==
    [][ \A id \in JobIds :
            GetJobErrors(id) =>
                /\ reply'.op = "errors"
                /\ reply'.code = 404 <=> id \notin DOMAIN jobStore
                /\ reply'.code = 204 <=> (id \in DOMAIN jobStore /\ jobStore[id].errors = <<>>)
                /\ reply'.code = 200 <=> (id \in DOMAIN jobStore /\ jobStore[id].errors # <<>>)
                /\ reply'.code = 200 =>
                        Cardinality(LineBreaks(errorsResponse(jobStore, id).body))
                            = Len(jobStore[id].errors)
                /\ ( /\ id \in DOMAIN jobStore
                     /\ jobStore[id].status = "completed"
                     /\ jobStore[id].summary.errorCount = 0
                     /\ Threw(id) = {} ) => reply'.code = 204
      ]_vars

\* The last answer is an error report with a body: a completed job has one
\* preview error and one failed apply; another completed job has neither.
C16_Witness ==
    /\ reply = [op |-> "errors", code |-> 200]
    /\ \E i \in DOMAIN jobStore :
        /\ jobStore[i].status = "completed"
        /\ Len(jobStore[i].errors) = 2
        /\ jobStore[i].summary.errorCount = 1
    /\ \E i \in DOMAIN jobStore :
        /\ jobStore[i].status = "completed"
        /\ jobStore[i].errors = <<>>

(***************************************************************************)
(* Tokenizer and escaper.  CsvSpec starts from a text over CsvChars of up  *)
(* to MaxTextLen characters, or from a table of one or two trimmed cells   *)
(* over CellChars with up to MaxTableChars characters in all and a         *)
(* non-empty cell in each row; the text is tokenized, a table is written   *)
(* out with stringifyCsv and the text written is tokenized again.          *)
(***************************************************************************)
MaxTextLen == 5         \* characters of an uploaded text
MaxTableChars == 4      \* characters of the cells of a table, in all

CsvChars == {"a", " ", ",", "\"", "\n", "\r"}

CellChars == {"a", ",", "\"", "\n", "\r"}

RECURSIVE Strings(_, _)
Strings(chars, n) ==
    IF n = 0 THEN {""}
    ELSE LET shorter == Strings(chars, n - 1)
         IN  shorter \cup { s \o c : s \in shorter, c \in chars }

CsvTexts == Strings(CsvChars, MaxTextLen)

TrimmedCells == { cell \in Strings(CellChars, MaxTableChars) : trim(cell) = cell }

CsvTables ==
    LET full == TrimmedCells \ {""}
        Fits(a, b) == Len(a) + Len(b) <= MaxTableChars
    IN  { <<>> }
        \cup { << <<a>> >> : a \in full }
        \cup { << <<p[1], p[2]>> >> :
                p \in { q \in TrimmedCells \X TrimmedCells :
                            Fits(q[1], q[2]) /\ q # <<"", "">> } }
        \cup { << <<p[1]>>, <<p[2]>> >> :
                p \in { q \in full \X full : Fits(q[1], q[2]) } }

CsvInit ==
    /\ previewCache = <<>>
    /\ nextPreviewId = 1
    /\ jobStore = <<>>
    /\ jobQueue = <<>>
    /\ activeJob = 0
    /\ timers = <<>>
    /\ productStore = << [sku |-> "S1", name |-> "n1", onHand |-> 1] >>
    /\ initialStockStore = <<>>
    /\ movementLog = <<>>
    /\ stockSeeded = FALSE
    /\ clock = 0
    /\ applyLog = <<>>
    /\ reply = NoReply
    /\ \/ \E text \in CsvTexts : csv = [phase |-> "text", text |-> text, table |-> <<>>]
       \/ \E table \in CsvTables : csv = [phase |-> "table", text |-> "", table |-> table]

\* const table = parseCsv(csvText)
Tokenize ==
    /\ csv.phase = "text"
    /\ csv' = [csv EXCEPT !.phase = "table", !.table = parseCsv(csv.text)]

\* stringifyCsv(headers, rows) of the table's first row and the rows after it
WriteOut ==
    /\ csv.phase = "table"
    /\ csv' = [csv EXCEPT !.phase = "written",
                          !.text = IF csv.table = <<>> THEN ""
                                   ELSE stringifyCsv(Head(csv.table), Tail(csv.table))]

\* parseCsv of the text written
TokenizeAgain ==
    /\ csv.phase = "written"
    /\ csv' = [csv EXCEPT !.phase = "again", !.table = parseCsv(csv.text)]

CsvNext ==
    /\ \/ Tokenize
       \/ WriteOut
       \/ TokenizeAgain
    /\ UNCHANGED <<stores, nextPreviewId, clock, applyLog, reply>>

CsvSpec == CsvInit /\ [][CsvNext]_vars

\* Each cell is trimmed and each row has a non-empty cell.
TrimmedTable(table) ==
    \A r \in DOMAIN table :
        /\ \A c \in DOMAIN table[r] : trim(table[r][c]) = table[r][c]
        /\ \E c \in DOMAIN table[r] : table[r][c] # ""

\* C17: every table parseCsv produces has trimmed cells and a non-empty
\* cell in each row; for such a table (cells with commas, double quotes
\* and line breaks included), tokenizing the text written with escapeCsv,
\* ',' between cells and a newline between rows gives the same rows and
\* cell values back.
C17_RoundTrip ==
    /\ [][ /\ Tokenize => TrimmedTable(csv'.table)
           /\ TokenizeAgain => (TrimmedTable(csv.table) /\ csv'.table = csv.table)
         ]_vars

\* A row with a cell holding a quote, a comma and a line break went through
\* the round trip.
C17_Witness ==
    /\ csv.phase = "again"
    /\ csv.table = << <<"\",\n\"">> >>

\* The job of the response to the commit that has just created a job.
Committed == commitResponse(LastJob(jobStore')).job

\* C18 as stated: the job that a commit response reports is 'pending',
\* also when no other job is active or queued.
C18_CommitResponsePending ==
    [][ Len(jobStore') > Len(jobStore) => Committed.status = "pending" ]_vars

\* C18: the job of a commit response is 'processing' exactly when no job
\* is active and none is queued at the commit, the handler's own
\* processQueue call having started it, and 'pending' otherwise; in either
\* case no row has been applied yet: processed is 0 and the first row waits
\* for a timer.
C18_CommitResponseStatus ==
    [][ Len(jobStore') > Len(jobStore) =>
            /\ reply' = Sent(commitResponse(LastJob(jobStore')))
            /\ Committed.status = "processing" <=> (activeJob = 0 /\ jobQueue = <<>>)
            /\ Committed.status \in {"pending", "processing"}
            /\ Committed.status = "processing" =>
                    /\ activeJob' = Committed.id
                    /\ \E t \in DOMAIN timers' :
                        timers'[t] = [kind |-> "processNext", job |-> Committed.id, index |-> 0]
            /\ Committed.processed = 0
            /\ applyLog' = applyLog
      ]_vars

\* The commit of a batch with rows has just been answered on an idle
\* queue: its job is 'processing' with no row applied; an earlier job has
\* completed.
C18_Witness ==
    /\ reply = [op |-> "commit", code |-> 200]
    /\ Len(jobStore) = 2
    /\ jobStore[1].status = "completed"
    /\ jobStore[2].status = "processing"
    /\ jobStore[2].total >= 1
    /\ jobStore[2].processed = 0
    /\ \E t \in DOMAIN timers : timers[t] = [kind |-> "processNext", job |-> 2, index |-> 0]

\* Apply k comes before apply l in job order, then row order.
AppliedBefore(k, l) ==
    \/ applyLog[k].job < applyLog[l].job
    \/ applyLog[k].job = applyLog[l].job /\ applyLog[k].index < applyLog[l].index

\* C19: the applies, in the order they happened, go job by job in commit
\* order (job ids are handed out in commit order) and, within a job, by
\* increasing row index; a step applies at most one row, a row of the
\* active job, the one at the job's processed count.
C19_AppliesInOrder ==
    /\ [](\A k \in DOMAIN applyLog : \A l \in DOMAIN applyLog : k < l => AppliedBefore(k, l))
    /\ [][ Len(applyLog') > Len(applyLog) =>
             /\ Len(applyLog') = Len(applyLog) + 1
             /\ SubSeq(applyLog', 1, Len(applyLog)) = applyLog
             /\ applyLog'[Len(applyLog')].job = activeJob
             /\ applyLog'[Len(applyLog')].index = jobStore[activeJob].processed
         ]_vars

\* Two jobs of one row each have been applied, the row of the job
\* committed first before the row of the other.
C19_Witness ==
    /\ Len(applyLog) = 2
    /\ applyLog[1].job = 1
    /\ applyLog[2].job = 2
    /\ jobStore[2].status = "completed"

(***************************************************************************)
(* Time.  ClockSpec lets the clock advance between the steps and uploads   *)
(* movement batches whose rows carry an occurredAt date or none, for       *)
(* MaxUploads accepted previews.                                           *)
(***************************************************************************)
MaxClock == 1           \* the clock runs from 0 to MaxClock

\* Time passes between two steps of the event loop.
Tick ==
    /\ clock < MaxClock
    /\ clock' = clock + 1
    /\ UNCHANGED <<stores, nextPreviewId, applyLog, reply, csv>>

MovementRows ==
    RawRows("movements")
    \cup { [raw EXCEPT !.occurredAt = ""] : raw \in RawRows("movements") }

ClockContents ==
    { [kind |-> "table",
       columns |-> RequiredColumns("movements") \o OptionalColumns("movements"),
       rows |-> t] : t \in UNION { [1..n -> MovementRows] : n \in 0..MaxRows } }

ClockNext ==
    \/ \E content \in ClockContents :
            /\ nextPreviewId <= MaxUploads
            /\ Preview("movements", content)
    \/ \E type \in CSV_TYPES : \E previewId \in PreviewIds : Commit(type, previewId)
    \/ \E i \in DOMAIN timers : \E throws \in BOOLEAN : TimerProcessNext(i, throws)
    \/ \E i \in DOMAIN timers : TimerProcessQueue(i)
    \/ \E id \in JobIds : GetJob(id)
    \/ Tick

ClockSpec == Init /\ [][ClockNext]_vars

\* C20: when a movements row without an occurredAt value is applied, the
\* occurredAt of the entry appended to the movement log is the time of the
\* apply step.
C20_OccurredAtIsApplyTime ==
    [][ Len(movementLog') > Len(movementLog) =>
            LET row == jobStore[activeJob].rows[jobStore[activeJob].processed + 1]
            IN  row.raw.occurredAt = ""
                    => movementLog'[Len(movementLog')].occurredAt = clock
      ]_vars

\* C21: every row of a previewed batch has index = its 0-based position
\* among the data rows and lineNumber = index + 2.
C21_IndexIsPosition ==
    \A s \in Summarized : \A r \in DOMAIN s.rows :
        /\ s.rows[r].index = r - 1
        /\ s.rows[r].lineNumber = s.rows[r].index + 2


(***************************************************************************)
(* Row validation.  RowSpec uploads, besides the rows of Spec, stock rows  *)
(* that share a key with different quantities, a stock row of an unknown   *)
(* warehouse and a movement row of an unknown type, for MaxUploads         *)
(* accepted previews.                                                      *)
(***************************************************************************)
RowRows(type) ==
    CASE type = "products" -> RawRows("products")
      [] type = "initial_stock" ->
            RawRows("initial_stock")
            \cup { [sku |-> "S1", warehouse |-> "ICN1", location |-> "A-01", onHand |-> "1", reserved |-> "1"],
                   [sku |-> "S1", warehouse |-> "zzz", location |-> "a-01", onHand |-> "2", reserved |-> ""] }
      [] type = "movements" ->
            RawRows("movements")
            \cup { [raw EXCEPT !.type = "xx"] : raw \in RawRows("movements") }

RowContents(type) ==
    { [kind |-> "table",
       columns |-> RequiredColumns(type) \o OptionalColumns(type),
       rows |-> t] : t \in UNION { [1..n -> RowRows(type)] : n \in 0..MaxRows } }

RowUploads == [type \in CSV_TYPES |-> RowContents(type)]

RowNext ==
    \/ \E type \in CSV_TYPES : \E content \in RowUploads[type] :
            /\ nextPreviewId <= MaxUploads
            /\ Preview(type, content)
    \/ \E type \in CSV_TYPES : \E previewId \in PreviewIds : Commit(type, previewId)
    \/ \E i \in DOMAIN timers : \E throws \in BOOLEAN : TimerProcessNext(i, throws)
    \/ \E i \in DOMAIN timers : TimerProcessQueue(i)
    \/ \E id \in JobIds : GetJob(id)

RowSpec == Init /\ [][RowNext]_vars

\* C22: a row of a preview entry or of a job has a non-empty messages list
\* exactly when its action is 'error' and a payload exactly when its action
\* is 'create' or 'update'; it always has its raw cells.
C22_MessagesAndPayload ==
    \A s \in Summarized : \A r \in DOMAIN s.rows :
        LET row == s.rows[r]
        IN  /\ row.action \in {"create", "update", "error"}
            /\ row.messages # <<>> <=> row.action = "error"
            /\ row.payload # NoPayload <=> row.action \in {"create", "update"}
            /\ DOMAIN row.raw # {}

\* A stock row of an unknown warehouse is held as a rejected row with
\* messages and without a payload, and a movement row as an accepted row
\* with a payload and without messages.
C22_Witness ==
    /\ \E s \in Summarized :
        /\ Len(s.rows) = 1
        /\ "reserved" \in DOMAIN s.rows[1].raw
        /\ s.rows[1].raw.warehouse = "zzz"
        /\ s.rows[1].action = "error"
        /\ s.rows[1].messages # <<>>
        /\ s.rows[1].payload = NoPayload
    /\ \E s \in Summarized :
        /\ Len(s.rows) = 1
        /\ "type" \in DOMAIN s.rows[1].raw
        /\ s.rows[1].action = "create"
        /\ s.rows[1].messages = <<>>
        /\ s.rows[1].payload # NoPayload

PayloadKey(payload) == buildStockKey(payload.sku, payload.warehouse, payload.location)

\* The accepted rows of a stock batch previewed by this step.
NewStockRows ==
    UNION { { previewCache'[id].rows[r] : r \in DOMAIN previewCache'[id].rows }
            : id \in { i \in DOMAIN previewCache' \ DOMAIN previewCache :
                            previewCache'[i].type = "initial_stock" } }

\* C23: an accepted initial_stock row is 'update' exactly when the stock
\* store holds its key when the preview is taken and 'create' otherwise; the
\* key of every stock row a job applied stays in the stock store, so a later
\* preview of that key is an 'update'.
C23_StockClassification ==
    /\ [][ \A row \in NewStockRows :
                row.action # "error" =>
                    /\ row.action \in {"create", "update"}
                    /\ row.action = "update"
                            <=> PayloadKey(row.payload) \in DOMAIN initialStockStore
                    /\ \A k \in DOMAIN applyLog :
                            LET job == jobStore[applyLog[k].job]
                                applied == job.rows[applyLog[k].index + 1]
                            IN  (/\ job.type = "initial_stock"
                                 /\ PayloadKey(applied.payload) = PayloadKey(row.payload))
                                    => row.action = "update" ]_vars
    /\ [](\A k \in DOMAIN applyLog :
            LET job == jobStore[applyLog[k].job]
            IN  job.type = "initial_stock"
                    => PayloadKey(job.rows[applyLog[k].index + 1].payload)
                            \in DOMAIN initialStockStore)

\* No products preview seeded the stock store; a stock job that created a
\* key has completed and a later preview of the key is held as an 'update'.
C23_Witness ==
    /\ ~stockSeeded
    /\ \E i \in DOMAIN jobStore :
        /\ jobStore[i].type = "initial_stock" /\ jobStore[i].status = "completed"
        /\ \E r \in DOMAIN jobStore[i].rows : jobStore[i].rows[r].action = "create"
    /\ \E id \in DOMAIN previewCache :
        /\ previewCache[id].type = "initial_stock"
        /\ \E r \in DOMAIN previewCache[id].rows : previewCache[id].rows[r].action = "update"


\* The applies of movements jobs, in the order they happened.
MovementApplies == SelectSeq(applyLog, LAMBDA e : jobStore[e.job].type = "movements")

AppliedRow(e) == jobStore[e.job].rows[e.index + 1]

\* C24: every accepted movements row is a 'create'; the movement log is the
\* payloads of the applied movements rows, one entry per apply in the order
\* of the applies, duplicates included; a step changes the log only by
\* appending one entry, the payload of the row it applies.
C24_MovementsAppendOnly ==
    /\ [](/\ \A id \in DOMAIN previewCache : \A r \in DOMAIN previewCache[id].rows :
                (previewCache[id].type = "movements" /\ previewCache[id].rows[r].action # "error")
                    => previewCache[id].rows[r].action = "create"
          /\ \A i \in DOMAIN jobStore : \A r \in DOMAIN jobStore[i].rows :
                (jobStore[i].type = "movements" /\ jobStore[i].rows[r].action # "error")
                    => jobStore[i].rows[r].action = "create"
          /\ movementLog = [k \in 1..Len(MovementApplies) |->
                                AppliedRow(MovementApplies[k]).payload])
    /\ [][ /\ Len(movementLog') >= Len(movementLog)
           /\ SubSeq(movementLog', 1, Len(movementLog)) = movementLog
           /\ Len(movementLog') <= Len(movementLog) + 1
           /\ Len(movementLog') > Len(movementLog) =>
                /\ activeJob # 0
                /\ jobStore[activeJob].type = "movements"
                /\ movementLog'[Len(movementLog')]
                        = jobStore[activeJob].rows[jobStore[activeJob].processed + 1].payload
                /\ jobStore'[activeJob].processed = jobStore[activeJob].processed + 1 ]_vars

\* The same movements rows were previewed and committed twice, both jobs
\* have completed and the log holds the same movement twice.
C24_Witness ==
    /\ Len(jobStore) = 2
    /\ \A i \in DOMAIN jobStore :
        /\ jobStore[i].type = "movements"
        /\ jobStore[i].status = "completed"
        /\ Len(jobStore[i].rows) = 1
        /\ jobStore[i].rows[1].action = "create"
    /\ jobStore[1].rows = jobStore[2].rows
    /\ Len(movementLog) = 2
    /\ movementLog[1] = movementLog[2]


\* C25: a preview entry leaves the cache only in a commit that names its
\* token and is unchanged until then; a commit of a cached token under the
\* entry's type creates the job of its rows, whatever happened in between;
\* a job never leaves the job store and keeps its id, and GET /jobs/:id of
\* a job in the store answers 200, never 404.
C25_NeverEvicted ==
    /\ [][ \A id \in DOMAIN previewCache :
            /\ id \in DOMAIN previewCache' => previewCache'[id] = previewCache[id]
            /\ id \notin DOMAIN previewCache' => \E type \in CSV_TYPES : Commit(type, id)
            /\ Commit(previewCache[id].type, id) =>
                    /\ Len(jobStore') = Len(jobStore) + 1
                    /\ LastJob(jobStore').rows = previewCache[id].rows
                    /\ reply'.code # 400 ]_vars
    /\ [][ /\ Len(jobStore') >= Len(jobStore)
           /\ \A i \in DOMAIN jobStore :
                /\ jobStore'[i].id = jobStore[i].id
                /\ GetJob(i) => reply'.op = "job" /\ reply'.code = 200 ]_vars
    /\ [](\A i \in DOMAIN jobStore : jobStore[i].id = i)

\* The first preview entry is still cached after a later preview was
\* committed and its job completed, and a poll of that job answered 200.
C25_Witness ==
    /\ 1 \in DOMAIN previewCache
    /\ nextPreviewId > 2
    /\ Len(jobStore) >= 1
    /\ jobStore[1].status = "completed"
    /\ jobStore[1].rows # <<>>
    /\ reply = [op |-> "job", code |-> 200]


\* C26: no job is ever 'failed'; a job that is neither queued nor active is
\* 'completed', also when rows of it failed to apply, and a 'completed' job
\* stays 'completed'.
C26_NeverFailed ==
    /\ [](\A i \in DOMAIN jobStore :
            /\ jobStore[i].status \in {"pending", "processing", "completed"}
            /\ (activeJob # i /\ \A k \in DOMAIN jobQueue : jobQueue[k] # i)
                    => jobStore[i].status = "completed")
    /\ [][ \A i \in DOMAIN jobStore :
                jobStore[i].status = "completed" => jobStore'[i].status = "completed" ]_vars

\* A job whose every accepted row failed to apply has ended.
C26_Witness ==
    \E i \in DOMAIN jobStore :
        /\ jobStore[i].status = "completed"
        /\ jobStore[i].total = 2
        /\ jobStore[i].summary.errorCount = 0
        /\ Len(jobStore[i].errors) = 2


Queued(i) == \E k \in DOMAIN jobQueue : jobQueue[k] = i

\* C27: every job of the job store is in exactly one place: in jobQueue and
\* 'pending', the active job and 'processing', or neither and 'completed';
\* activeJob is set exactly when some job is 'processing'; jobQueue names
\* jobs of the store and names no job twice.
C27_QueueBookkeeping ==
    /\ \A i \in DOMAIN jobStore :
        /\ ~(Queued(i) /\ activeJob = i)
        /\ jobStore[i].status = "pending" <=> Queued(i)
        /\ jobStore[i].status = "processing" <=> activeJob = i
        /\ jobStore[i].status = "completed" <=> (~Queued(i) /\ activeJob # i)
    /\ activeJob # 0 <=> \E i \in DOMAIN jobStore : jobStore[i].status = "processing"
    /\ activeJob # 0 => activeJob \in DOMAIN jobStore
    /\ \A k \in DOMAIN jobQueue : jobQueue[k] \in DOMAIN jobStore
    /\ \A k \in DOMAIN jobQueue : \A l \in DOMAIN jobQueue :
            jobQueue[k] = jobQueue[l] => k = l

\* One job has ended, one is active and one waits in the queue.
C27_Witness ==
    /\ Len(jobStore) = 3
    /\ activeJob = 2
    /\ jobQueue = <<3>>
    /\ jobStore[1].status = "completed"
    /\ jobStore[2].processed = 1


\* The rows of a job that the preview rejected, in row order.
PreviewErrors(job) == SelectSeq(job.rows, LAMBDA row : row.action = "error")

\* The failed applies of job id, in the order they happened.
FailedApplies(id) == SelectSeq(applyLog, LAMBDA e : e.job = id /\ e.threw)

\* The position of the k-th line feed of a text.
NthBreak(text, k) ==
    CHOOSE i \in LineBreaks(text) : Cardinality({j \in LineBreaks(text) : j <= i}) = k

\* Line k + 1 of the text starts with the given cell and a comma.
LineStartsWith(text, k, cell) ==
    LET start == NthBreak(text, k) + 1
    IN  /\ start + Len(cell) <= Len(text)
        /\ SubSeq(text, start, start + Len(cell)) = cell \o ","

ErrorsInOrder(job, id) ==
    LET seeded == PreviewErrors(job)
        failed == FailedApplies(id)
    IN  /\ Len(job.errors) = Len(seeded) + Len(failed)
        /\ SubSeq(job.errors, 1, Len(seeded)) = seeded
        /\ \A k \in DOMAIN failed :
                LET entry == job.errors[Len(seeded) + k]
                    row == job.rows[failed[k].index + 1]
                IN  /\ entry.lineNumber = row.lineNumber
                    /\ entry.raw = row.raw
                    /\ entry.action = "error"
                    /\ row.action # "error"
        /\ \A a \in DOMAIN job.errors : \A b \in DOMAIN job.errors :
                job.errors[a].lineNumber = job.errors[b].lineNumber => a = b
        /\ Len(job.errors) <= job.total

\* C28: the error list of a job is the rows the preview rejected, in row
\* order, followed by the rows whose apply failed, in the order of the
\* applies; no lineNumber occurs twice in it and it is no longer than total;
\* a step only appends to it; the error report has, after its header line,
\* one line per entry, in the order of the list.
C28_ErrorsGrowInOrder ==
    /\ [](\A i \in DOMAIN jobStore : ErrorsInOrder(jobStore[i], i))
    /\ [][ \A i \in DOMAIN jobStore :
            /\ Len(jobStore'[i].errors) >= Len(jobStore[i].errors)
            /\ SubSeq(jobStore'[i].errors, 1, Len(jobStore[i].errors)) = jobStore[i].errors
         ]_vars
    /\ [][ \A id \in DOMAIN jobStore :
            (GetJobErrors(id) /\ reply'.code = 200) =>
                LET body == errorsResponse(jobStore, id).body
                IN  /\ Cardinality(LineBreaks(body)) = Len(jobStore[id].errors)
                    /\ \A k \in DOMAIN jobStore[id].errors :
                            LineStartsWith(body, k, ToString(jobStore[id].errors[k].lineNumber))
         ]_vars

\* A job of two rows has ended with the rejected row of line 3 in front of
\* the row of line 2, whose apply failed, and its report was downloaded.
C28_Witness ==
    /\ reply = [op |-> "errors", code |-> 200]
    /\ Len(jobStore) = 1
    /\ jobStore[1].status = "completed"
    /\ Len(jobStore[1].errors) = 2
    /\ jobStore[1].errors[1].lineNumber = 3
    /\ jobStore[1].errors[2].lineNumber = 2


\* The accepted rows held by preview entries and by jobs of a type.
HeldAccepted(type) ==
    UNION { { previewCache[id].rows[r] : r \in DOMAIN previewCache[id].rows }
            : id \in { i \in DOMAIN previewCache : previewCache[i].type = type } }
    \cup UNION { { jobStore[i].rows[r] : r \in DOMAIN jobStore[i].rows }
            : i \in { j \in DOMAIN jobStore : jobStore[j].type = type } }

RowActions(rows) == [r \in DOMAIN rows |-> rows[r].action]

\* C29: the action of a row is fixed when it is previewed: as long as no
\* store holds a key, every held row of that key is a 'create', however
\* many rows share it in one batch or across batches; no step changes the
\* action of a held row; the apply of a stock row sets its key to its
\* payload without failing, whether the key exists by then or not, and a
\* product upsert that does not throw leaves one product of the row's SKU.
C29_FrozenClassification ==
    /\ [](/\ \A row \in { a \in HeldAccepted("initial_stock") : a.action # "error" } :
                PayloadKey(row.payload) \notin DOMAIN initialStockStore
                    => row.action = "create"
          /\ \A row \in { a \in HeldAccepted("products") : a.action # "error" } :
                row.payload.sku \notin CatalogSkus => row.action = "create")
    /\ [][ /\ \A id \in DOMAIN previewCache \cap DOMAIN previewCache' :
                RowActions(previewCache'[id].rows) = RowActions(previewCache[id].rows)
           /\ \A i \in DOMAIN jobStore :
                RowActions(jobStore'[i].rows) = RowActions(jobStore[i].rows) ]_vars
    /\ [][ Len(applyLog') > Len(applyLog) =>
            LET e == applyLog'[Len(applyLog')]
                job == jobStore[e.job]
                row == job.rows[e.index + 1]
            IN  /\ job.type = "initial_stock" =>
                    /\ ~e.threw
                    /\ jobStore'[e.job].errors = job.errors
                    /\ PayloadKey(row.payload) \in DOMAIN initialStockStore'
                    /\ initialStockStore'[PayloadKey(row.payload)] = row.payload
                    /\ \A k \in DOMAIN initialStockStore \ {PayloadKey(row.payload)} :
                            initialStockStore'[k] = initialStockStore[k]
                /\ (job.type = "products" /\ ~e.threw) =>
                    Cardinality({ p \in DOMAIN productStore' :
                                    productStore'[p].sku = row.payload.sku }) = 1 ]_vars

\* Two stock batches of the same new key were previewed before either was
\* committed: both jobs have ended with newCount 1 and the stock store has
\* gained one key.
C29_Witness ==
    /\ ~stockSeeded
    /\ Len(jobStore) = 2
    /\ \A i \in DOMAIN jobStore :
        /\ jobStore[i].type = "initial_stock"
        /\ jobStore[i].status = "completed"
        /\ jobStore[i].summary.newCount = 1
        /\ jobStore[i].errors = <<>>
    /\ Cardinality(DOMAIN initialStockStore) = 1


\* The accepted rows <<job, row>> of stock jobs that carry key.
StockRowRefs(key) ==
    { ref \in (DOMAIN jobStore) \X (1..MaxRows) :
        /\ jobStore[ref[1]].type = "initial_stock"
        /\ ref[2] \in DOMAIN jobStore[ref[1]].rows
        /\ jobStore[ref[1]].rows[ref[2]].action # "error"
        /\ PayloadKey(jobStore[ref[1]].rows[ref[2]].payload) = key }

\* Commit order (job ids are handed out in commit order), then row order.
AppliedLater(a, b) == a[1] > b[1] \/ (a[1] = b[1] /\ a[2] > b[2])

LastStockRow(key) ==
    LET ref == CHOOSE a \in StockRowRefs(key) :
                    \A b \in StockRowRefs(key) : a = b \/ AppliedLater(a, b)
    IN  jobStore[ref[1]].rows[ref[2]]

StockKeys == { <<sku, warehouse, location>> :
                sku \in {"S1", "S2"}, warehouse \in DOMAIN warehouseCatalog,
                location \in {"A-01"} } \cup DOMAIN initialStockStore

\* C30: when every job has completed, the stock store holds for each key
\* that several accepted rows of stock jobs share the payload of the last
\* such row in commit order, then row order, and each stored row sits under
\* its own key.
C30_LastWriteWins ==
    AllJobsCompleted =>
        /\ \A key \in DOMAIN initialStockStore : PayloadKey(initialStockStore[key]) = key
        /\ \A key \in StockKeys :
                Cardinality(StockRowRefs(key)) >= 2 =>
                    /\ key \in DOMAIN initialStockStore
                    /\ initialStockStore[key] = LastStockRow(key).payload

====
